---- MODULE Spec2Model ----
(***************************************************************************)
(* Carry-trade Telegram bot: the carry engine (common.py), the scheduled   *)
(* batch job (daily_job.py) and the webhook handler (server.py).           *)
(*                                                                         *)
(* Numbers.  A Python float is modelled as an exact rational <<n, d>> in   *)
(* lowest terms with d > 0; float("nan") is <<0, 0>>.  Rounding is not     *)
(* modelled.  A float division by zero raises ZeroDivisionError, as in     *)
(* Python.  None is the empty tuple <<>> and a present optional value x is *)
(* <<x>>.                                                                  *)
(*                                                                         *)
(* Dates.  A date is a day number (date.toordinal).  A date STRING is a    *)
(* record [ok, day]: ok says whether strptime(s, "%Y-%m-%d") accepts it;   *)
(* for a text that is no date, day only tells two such texts apart.        *)
(*                                                                         *)
(* Function results.  A Python call that may raise returns a record whose  *)
(* field exc names the exception ("none" when it returned).                *)
(***************************************************************************)
EXTENDS Integers, Sequences, FiniteSets, TLC

\* ------------------------------------------------------------------ bounds
\* The clock runs over the days 0 .. MaxDay.
MaxDay == 1
\* Batch runs (daily_job.main) started in one behaviour.
MaxRuns == 2
\* Webhook requests received in one behaviour.
MaxMsgs == 2
\* Length of the contribution lists the engine is applied to.
MaxAportes == 2

\* ------------------------------------------------------------ rationals
None == <<>>
Some(x) == <<x>>
IsNone(o) == o = <<>>
Val(o) == o[1]

Abs(x) == IF x < 0 THEN -x ELSE x

RECURSIVE GCD(_, _)
GCD(a, b) == IF b = 0 THEN a ELSE GCD(b, a % b)

NaN == <<0, 0>>
IsNaN(r) == r[2] = 0

\* <<n, d>> with d # 0 brought to lowest terms with a positive denominator.
Norm(n, d) ==
    LET g == GCD(Abs(n), Abs(d))
        s == IF d < 0 THEN -1 ELSE 1
    IN  <<(s * n) \div g, (s * d) \div g>>

R(k) == <<k, 1>>
\* The operations cancel common factors before they multiply, which keeps
\* the intermediate products small; the values are those of +, -, * and /.
RAdd(a, b) ==
    IF IsNaN(a) \/ IsNaN(b) THEN NaN
    ELSE LET g == GCD(a[2], b[2])
         IN  Norm(a[1] * (b[2] \div g) + b[1] * (a[2] \div g), (a[2] \div g) * b[2])
RNeg(a) == IF IsNaN(a) THEN NaN ELSE <<-a[1], a[2]>>
RSub(a, b) == RAdd(a, RNeg(b))
RMul(a, b) ==
    IF IsNaN(a) \/ IsNaN(b) THEN NaN
    ELSE LET g1 == GCD(Abs(a[1]), b[2])
             g2 == GCD(Abs(b[1]), a[2])
         IN  Norm((a[1] \div g1) * (b[1] \div g2), (a[2] \div g2) * (b[2] \div g1))
\* a / b for b # 0 (the callers raise ZeroDivisionError before using it).
RQuot(a, b) ==
    IF IsNaN(a) \/ IsNaN(b) THEN NaN
    ELSE RMul(a, IF b[1] < 0 THEN <<-b[2], -b[1]>> ELSE <<b[2], b[1]>>)
\* Comparisons with NaN are false, as for floats.
RLt(a, b) == ~IsNaN(a) /\ ~IsNaN(b) /\ a[1] * b[2] < b[1] * a[2]
RLe(a, b) == ~IsNaN(a) /\ ~IsNaN(b) /\ a[1] * b[2] <= b[1] * a[2]
RIsZero(a) == ~IsNaN(a) /\ a[1] = 0

\* max(a, b); MaxSecond is max without the comparison.
MaxSecond(a, b) == b

Max(a, b) == IF a >= b THEN a ELSE b

\* ----------------------------------------------------------------- dates
\* date.isoformat(): the date string of a day.
IsoFormat(d) == [ok |-> TRUE, day |-> d]
\* A text that strptime rejects.
BadDate(k) == [ok |-> FALSE, day |-> k]

\* common.parse_date: raises ValueError on a text that is no YYYY-MM-DD date.
parse_date(s) ==
    IF s.ok THEN [exc |-> "none", v |-> s.day]
    ELSE [exc |-> "ValueError", v |-> 0]

\* ------------------------------------------------------- carry engine
\* A contribution entry of user["aportes"] as json.load returns it.  pair:
\* the entry unpacks into two values (for f_ap, m_ap in aportes); f: the text
\* str(f_ap); m: the amount, num saying whether float(m_ap) accepts it.
Aporte(f, m) == [pair |-> TRUE, f |-> f, m |-> [num |-> TRUE, v |-> m]]
AporteBadAmount(f) == [pair |-> TRUE, f |-> f, m |-> [num |-> FALSE, v |-> R(0)]]
AporteNoPair == [pair |-> FALSE, f |-> BadDate(0), m |-> [num |-> FALSE, v |-> R(0)]]

DaysPerYear == 365

\* 1 + tna_pesos * (dias / 365)
Accrual(tna_pesos, dias) ==
    RAdd(R(1), RMul(tna_pesos, Norm(dias, DaysPerYear)))

\* One iteration of the loop over aportes (common.py, lines 135-143): the
\* new ars_90, or the exception that leaves the loop.
AporteStepNoHorizonCut(ars_90, e, fecha_90, tna_pesos) ==
    IF ~e.pair THEN [exc |-> "ValueError", v |-> ars_90]
    ELSE LET ap == parse_date(e.f) IN
         IF ap.exc # "none" THEN [exc |-> "none", v |-> ars_90]
         ELSE IF ~e.m.num THEN [exc |-> "ValueError", v |-> ars_90]
         ELSE [exc |-> "none",
               v |-> RAdd(ars_90, RMul(e.m.v,
                        Accrual(tna_pesos, Max(0, fecha_90 - ap.v))))]

AporteStep(ars_90, e, fecha_90, tna_pesos) ==
    IF ~e.pair THEN [exc |-> "ValueError", v |-> ars_90]
    ELSE LET ap == parse_date(e.f) IN
         IF ap.exc # "none" THEN [exc |-> "none", v |-> ars_90]
         ELSE IF ap.v > fecha_90 THEN [exc |-> "none", v |-> ars_90]
         ELSE IF ~e.m.num THEN [exc |-> "ValueError", v |-> ars_90]
         ELSE [exc |-> "none",
               v |-> RAdd(ars_90, RMul(e.m.v,
                        Accrual(tna_pesos, Max(0, fecha_90 - ap.v))))]

\* The loop from entry i on, started with ars_90.
RECURSIVE AportesLoop(_, _, _, _, _)
AportesLoop(aportes, i, ars_90, fecha_90, tna_pesos) ==
    IF i > Len(aportes) THEN [exc |-> "none", v |-> ars_90]
    ELSE LET r == AporteStep(ars_90, aportes[i], fecha_90, tna_pesos) IN
         IF r.exc # "none" THEN r
         ELSE AportesLoop(aportes, i + 1, r.v, fecha_90, tna_pesos)

\* The alert level of compute_board (lines 151-159): None, "amarilla", "roja"
\* as "none", "amarilla", "roja".
AlertLevelInclusiveWarn(mep_hoy, umbral_amarillo, umbral_rojo) ==
    IF RLe(mep_hoy, umbral_amarillo) THEN "none"
    ELSE IF RLe(mep_hoy, umbral_rojo) THEN "amarilla"
    ELSE "roja"

AlertLevel(mep_hoy, umbral_amarillo, umbral_rojo) ==
    IF RLt(mep_hoy, umbral_amarillo) THEN "none"
    ELSE IF RLt(mep_hoy, umbral_rojo) THEN "amarilla"
    ELSE "roja"

Semaforo(alerta) ==
    CASE alerta = "none" -> "verde"
      [] alerta = "amarilla" -> "amarillo"
      [] OTHER -> "rojo"

\* margen_pct (line 146).
MargenPctSwapped(be_90, mep_hoy) ==
    IF RLt(R(0), be_90) THEN RQuot(RSub(mep_hoy, be_90), be_90) ELSE NaN

MargenPct(be_90, mep_hoy) ==
    IF RLt(R(0), be_90) THEN RQuot(RSub(be_90, mep_hoy), be_90) ELSE NaN

NoBoard ==
    [hoy |-> IsoFormat(0), dia_n |-> 0, dias_restantes |-> 0,
     fecha_90 |-> IsoFormat(0), mep_hoy |-> NaN, ars_hoy |-> NaN,
     usd_hoy |-> NaN, delta_usd |-> NaN, ars_90 |-> NaN, be_90 |-> NaN,
     margen_pct |-> NaN, semaforo |-> "", umbral_amarillo |-> NaN,
     umbral_rojo |-> NaN, alerta |-> ""]

Raised(e) == [exc |-> e, board |-> NoBoard]

\* common.compute_board.  a: the keyword arguments, and a.hoy, the value of
\* today_in_tz(timezone) at the call.  The board also records ars_90, the
\* local variable the break-even is computed from.
compute_board(a) ==
    LET fi == parse_date(a.fecha_inicio) IN
    IF fi.exc # "none" THEN Raised("ValueError")
    ELSE
    LET fecha_90 == fi.v + a.horizonte_dias
        dias_transcurridos == a.hoy - fi.v
        dia_n == dias_transcurridos + 1
        dias_restantes == Max(0, a.horizonte_dias - dias_transcurridos)
    IN
    IF RIsZero(a.mep_hoy) THEN Raised("ZeroDivisionError")
    ELSE
    LET usd_hoy == RQuot(RMul(a.ars_hoy, RSub(R(1), a.costo_salida)), a.mep_hoy)
        delta_usd == RSub(usd_hoy, a.usd_inicial)
        ars_0 == RMul(a.ars_hoy, Accrual(a.tna_pesos, dias_restantes))
        loop == AportesLoop(a.aportes, 1, ars_0, fecha_90, a.tna_pesos)
    IN
    IF loop.exc # "none" THEN Raised(loop.exc)
    ELSE IF RIsZero(a.usd_inicial) THEN Raised("ZeroDivisionError")
    ELSE
    LET ars_90 == loop.v
        be_90 == RQuot(RMul(ars_90, RSub(R(1), a.costo_salida)), a.usd_inicial)
        margen_pct == MargenPct(be_90, a.mep_hoy)
        umbral_amarillo == RMul(be_90, <<19, 20>>)
        umbral_rojo == RMul(be_90, R(1))
        alerta == AlertLevel(a.mep_hoy, umbral_amarillo, umbral_rojo)
    IN
    [exc |-> "none",
     board |->
       [hoy |-> IsoFormat(a.hoy), dia_n |-> dia_n,
        dias_restantes |-> dias_restantes, fecha_90 |-> IsoFormat(fecha_90),
        mep_hoy |-> a.mep_hoy, ars_hoy |-> a.ars_hoy, usd_hoy |-> usd_hoy,
        delta_usd |-> delta_usd, ars_90 |-> ars_90, be_90 |-> be_90,
        margen_pct |-> margen_pct, semaforo |-> Semaforo(alerta),
        umbral_amarillo |-> umbral_amarillo, umbral_rojo |-> umbral_rojo,
        alerta |-> alerta]]

\* common.build_alert_message: None, or which of the two texts it returns.
build_alert_message_always(board) == Some("alert_roja")

build_alert_message(board) ==
    IF board.alerta = "amarilla" THEN Some("alert_amarilla")
    ELSE IF board.alerta = "roja" THEN Some("alert_roja")
    ELSE None

\* --------------------------------------------------- persisted state
\* state["users"] is a dict in insertion order: a sequence of user records,
\* each carrying its key chat_id.
Chats == {1, 2}

NewUser(chat_id, now) ==
    [chat_id |-> chat_id, step |-> "ask_ars", ars_hoy |-> None,
     tna_pesos |-> None, horizonte_dias |-> None,
     fecha_inicio |-> IsoFormat(now), aportes |-> <<>>,
     last_sent |-> None, last_ars_update |-> None]

\* The index of chat_id in users, 0 when it is no key.
RECURSIVE IndexFrom(_, _, _)
IndexFrom(users, chat_id, i) ==
    IF i > Len(users) THEN 0
    ELSE IF users[i].chat_id = chat_id THEN i
    ELSE IndexFrom(users, chat_id, i + 1)

IndexOf(users, chat_id) == IndexFrom(users, chat_id, 1)

\* server.ensure_user: the users with chat_id's record added when missing.
\* ensure_user_past_ars: a new record that starts at the second question.
ensure_user_past_ars(users, chat_id, now) ==
    IF IndexOf(users, chat_id) # 0 THEN users
    ELSE Append(users, [NewUser(chat_id, now) EXCEPT !.step = "ask_tna"])

ensure_user(users, chat_id, now) ==
    IF IndexOf(users, chat_id) # 0 THEN users
    ELSE Append(users, NewUser(chat_id, now))

\* ------------------------------------------------------ configuration
\* USD_INICIAL and COSTO_SALIDA (environment, with these defaults).
USD_INICIAL == R(1600)
COSTO_SALIDA == <<7, 1000>>

\* ---------------------------------------------------------- batch job
\* A call of send_telegram_message: what was sent and whether the Telegram
\* API accepted it (the call raises RuntimeError when it did not).
Sent(kind, ok) == [kind |-> kind, ok |-> ok]

BodyResult(exc, user, sends, boards) ==
    [exc |-> exc, user |-> user, sends |-> sends, boards |-> boards]

\* The body of the loop of daily_job.main (lines 33-85) for one user, with
\* ARS_MODE = "manual", the default (the other mode calls estimate_ars_today,
\* which common.py does not define).  hoy: the date string of line 29; mep: the quote of
\* line 30; now: today_in_tz at the call of compute_board; ok1, ok2: whether
\* the first and the second delivery of this iteration succeed.
main_loop_body(user, hoy, mep, now, ok1, ok2) ==
    IF user.step # "ready" THEN BodyResult("none", user, <<>>, <<>>)
    ELSE IF user.last_sent = Some(hoy) THEN BodyResult("none", user, <<>>, <<>>)
    ELSE IF IsNone(user.ars_hoy) THEN
        IF ok1
        THEN BodyResult("none", [user EXCEPT !.last_sent = Some(hoy)],
                        <<Sent("missing_ars", TRUE)>>, <<>>)
        ELSE BodyResult("RuntimeError", user, <<Sent("missing_ars", FALSE)>>, <<>>)
    ELSE IF IsNone(user.tna_pesos) \/ IsNone(user.horizonte_dias) THEN
        IF ok1
        THEN BodyResult("none", [user EXCEPT !.last_sent = Some(hoy)],
                        <<Sent("missing_config", TRUE)>>, <<>>)
        ELSE BodyResult("RuntimeError", user, <<Sent("missing_config", FALSE)>>, <<>>)
    ELSE
    LET res == compute_board(
                 [usd_inicial |-> USD_INICIAL, costo_salida |-> COSTO_SALIDA,
                  hoy |-> now, fecha_inicio |-> user.fecha_inicio,
                  horizonte_dias |-> Val(user.horizonte_dias),
                  tna_pesos |-> Val(user.tna_pesos),
                  ars_hoy |-> Val(user.ars_hoy), mep_hoy |-> mep,
                  aportes |-> user.aportes])
    IN
    IF res.exc # "none" THEN BodyResult(res.exc, user, <<>>, <<res>>)
    ELSE IF ~ok1 THEN BodyResult("RuntimeError", user, <<Sent("daily", FALSE)>>, <<res>>)
    ELSE
    LET alert == build_alert_message(res.board) IN
    IF IsNone(alert)
    THEN BodyResult("none", [user EXCEPT !.last_sent = Some(hoy)],
                    <<Sent("daily", TRUE)>>, <<res>>)
    ELSE IF ~ok2
    THEN BodyResult("RuntimeError", user,
                    <<Sent("daily", TRUE), Sent("alert", FALSE)>>, <<res>>)
    ELSE BodyResult("none", [user EXCEPT !.last_sent = Some(hoy)],
                    <<Sent("daily", TRUE), Sent("alert", TRUE)>>, <<res>>)

\* ------------------------------------------------------------ webhook
\* A numeric text: ok says whether float() accepts it once normalize_number
\* has rewritten it; whole, sep, frac: the digits before the separator, the
\* separator ("", "." or ",") and the fdigits digits after it.
Numeral(whole, sep, frac, fdigits) ==
    [ok |-> TRUE, whole |-> whole, sep |-> sep, frac |-> frac, fdigits |-> fdigits]
NotANumber == [ok |-> FALSE, whole |-> 0, sep |-> "", frac |-> 0, fdigits |-> 0]

RECURSIVE Pow10(_)
Pow10(k) == IF k = 0 THEN 1 ELSE 10 * Pow10(k - 1)

\* server.normalize_number: "." is dropped (thousands separator) and ","
\* is the decimal separator; ValueError when float() rejects the rest.
normalize_number(n) ==
    IF ~n.ok THEN [exc |-> "ValueError", v |-> NaN]
    ELSE IF n.sep = "." THEN [exc |-> "none", v |-> R(n.whole * Pow10(n.fdigits) + n.frac)]
    ELSE IF n.sep = "," THEN
        [exc |-> "none", v |-> RAdd(R(n.whole), Norm(n.frac, Pow10(n.fdigits)))]
    ELSE [exc |-> "none", v |-> R(n.whole)]

\* int(x) of a float: truncation towards zero.
IntOf(r) == IF r[1] >= 0 THEN r[1] \div r[2] ELSE -((-r[1]) \div r[2])

\* The TNA rule of lines 87-88 and 159-160: a value above 1.5 is a percentage.
TnaOf(v) == IF RLt(<<3, 2>>, v) THEN RQuot(v, R(100)) ELSE v

\* A message text.  kind "plain": the whole text is the numeral n (or no
\* number at all); "ars", "tna", "dias", "aporte": the command followed by the
\* numeral n; "inicio": the command followed by the text d; "status" and
\* "ayuda": those commands; "other": any other text.
Text(kind, n, d) == [kind |-> kind, n |-> n, d |-> d]

MsgResult(exc, user, reply, boards) ==
    [exc |-> exc, user |-> user, reply |-> reply, boards |-> boards]

\* server.handle_onboarding: the question of the user's step.
handle_onboarding(user) ==
    CASE user.step = "ask_ars" -> "ask_ars"
      [] user.step = "ask_tna" -> "ask_tna"
      [] user.step = "ask_days" -> "ask_days"
      [] OTHER -> "listo"

\* server.advance_onboarding: float() is applied to the whole text, so only
\* a text that is a number advances.
\* advance_onboarding_early_ready: the ask_tna answer already ends the
\* onboarding.
advance_onboarding_early_ready(user, text, now) ==
    LET num == IF text.kind = "plain" THEN normalize_number(text.n)
               ELSE [exc |-> "ValueError", v |-> NaN]
    IN
    IF user.step \notin {"ask_ars", "ask_tna", "ask_days"}
    THEN MsgResult("none", user, handle_onboarding(user), <<>>)
    ELSE IF num.exc # "none" THEN MsgResult(num.exc, user, "", <<>>)
    ELSE IF user.step = "ask_ars" THEN
        MsgResult("none",
                  [user EXCEPT !.ars_hoy = Some(num.v),
                               !.last_ars_update = Some(IsoFormat(now)),
                               !.step = "ask_tna"],
                  "ask_tna", <<>>)
    ELSE IF user.step = "ask_tna" THEN
        MsgResult("none",
                  [user EXCEPT !.tna_pesos = Some(TnaOf(num.v)), !.step = "ready"],
                  "configured", <<>>)
    ELSE
        MsgResult("none",
                  [user EXCEPT !.horizonte_dias = Some(IntOf(num.v)), !.step = "ready"],
                  "configured", <<>>)

advance_onboarding(user, text, now) ==
    LET num == IF text.kind = "plain" THEN normalize_number(text.n)
               ELSE [exc |-> "ValueError", v |-> NaN]
    IN
    IF user.step \notin {"ask_ars", "ask_tna", "ask_days"}
    THEN MsgResult("none", user, handle_onboarding(user), <<>>)
    ELSE IF num.exc # "none" THEN MsgResult(num.exc, user, "", <<>>)
    ELSE IF user.step = "ask_ars" THEN
        MsgResult("none",
                  [user EXCEPT !.ars_hoy = Some(num.v),
                               !.last_ars_update = Some(IsoFormat(now)),
                               !.step = "ask_tna"],
                  "ask_tna", <<>>)
    ELSE IF user.step = "ask_tna" THEN
        MsgResult("none",
                  [user EXCEPT !.tna_pesos = Some(TnaOf(num.v)), !.step = "ask_days"],
                  "ask_days", <<>>)
    ELSE
        MsgResult("none",
                  [user EXCEPT !.horizonte_dias = Some(IntOf(num.v)), !.step = "ready"],
                  "configured", <<>>)

\* server.compute_and_format_status.  quote: the result of fetch_mep, None
\* when it raises.
compute_and_format_status(user, now, quote) ==
    IF user.step # "ready" THEN MsgResult("none", user, handle_onboarding(user), <<>>)
    ELSE IF IsNone(user.ars_hoy) \/ IsNone(user.tna_pesos) \/ IsNone(user.horizonte_dias)
    THEN MsgResult("none", user, "falta_configuracion", <<>>)
    ELSE IF IsNone(quote) THEN MsgResult("FetchError", user, "", <<>>)
    ELSE
    LET res == compute_board(
                 [usd_inicial |-> USD_INICIAL, costo_salida |-> COSTO_SALIDA,
                  hoy |-> now, fecha_inicio |-> user.fecha_inicio,
                  horizonte_dias |-> Val(user.horizonte_dias),
                  tna_pesos |-> Val(user.tna_pesos),
                  ars_hoy |-> Val(user.ars_hoy), mep_hoy |-> Val(quote),
                  aportes |-> user.aportes])
    IN
    IF res.exc # "none" THEN MsgResult(res.exc, user, "", <<res>>)
    ELSE MsgResult("none", user, "daily", <<res>>)

\* server.process_message.
process_message(user, text, now, quote) ==
    LET num == normalize_number(text.n) IN
    IF user.step # "ready" THEN advance_onboarding(user, text, now)
    ELSE IF text.kind = "ayuda" THEN MsgResult("none", user, "help", <<>>)
    ELSE IF text.kind = "status" THEN compute_and_format_status(user, now, quote)
    ELSE IF text.kind \in {"ars", "tna", "dias", "aporte"} /\ num.exc # "none"
    THEN MsgResult(num.exc, user, "", <<>>)
    ELSE IF text.kind = "ars" THEN
        MsgResult("none",
                  [user EXCEPT !.ars_hoy = Some(num.v),
                               !.last_ars_update = Some(IsoFormat(now))],
                  "ars_ok", <<>>)
    ELSE IF text.kind = "tna" THEN
        MsgResult("none", [user EXCEPT !.tna_pesos = Some(TnaOf(num.v))], "tna_ok", <<>>)
    ELSE IF text.kind = "dias" THEN
        MsgResult("none", [user EXCEPT !.horizonte_dias = Some(IntOf(num.v))],
                  "dias_ok", <<>>)
    ELSE IF text.kind = "inicio" THEN
        MsgResult("none", [user EXCEPT !.fecha_inicio = text.d], "inicio_ok", <<>>)
    ELSE IF text.kind = "aporte" THEN
        MsgResult("none",
                  [user EXCEPT
                     !.aportes = Append(@, Aporte(IsoFormat(now), num.v)),
                     !.ars_hoy = IF IsNone(@) THEN @ ELSE Some(RAdd(Val(@), num.v))],
                  "aporte_ok", <<>>)
    ELSE MsgResult("none", user, "no_entendi", <<>>)

\* ---------------------------------------------------------------- state
VARIABLES
    file,       \* state.json: the persisted users (<<>>: no file, or no user)
    today,      \* the calendar day today_in_tz returns
    secret,     \* TELEGRAM_WEBHOOK_SECRET: 0 when not configured
    batch,      \* the running daily_job.main: pc, its in-memory state, hoy, mep, loop index
    run,        \* what the current (or last) batch run did
    delivered,  \* delivered[c][d]: daily reports of day d delivered to chat c
    web,        \* the webhook request being handled, and what it did
    msgs,       \* webhook requests received so far
    eng,        \* a direct application of the carry engine: arguments and results
    peer        \* a second webhook request, handled while web is (another worker)

vars == <<file, today, secret, batch, run, delivered, web, msgs, eng, peer>>

Days == 0 .. MaxDay

\* The quotes fetch_mep returns; None: it raises.
Quotes == {None, Some(R(90)), Some(R(96)), Some(R(101))}

\* Records a state file can hold for a user that finished onboarding; the
\* file is also edited by hand (the batch job's messages ask for it), so a
\* ready user may lack a field.
ReadyUser(c) ==
    [chat_id |-> c, step |-> "ready", ars_hoy |-> Some(R(160000)),
     tna_pesos |-> Some(<<73, 100>>), horizonte_dias |-> Some(5),
     fecha_inicio |-> IsoFormat(0), aportes |-> <<>>,
     last_sent |-> None, last_ars_update |-> Some(IsoFormat(0))]

StoredUsers(c) ==
    {ReadyUser(c),
     [ReadyUser(c) EXCEPT !.ars_hoy = None, !.last_ars_update = None],
     [ReadyUser(c) EXCEPT !.tna_pesos = None]}

InitFiles ==
    {<<>>}
    \cup UNION {{<<u>> : u \in StoredUsers(c)} : c \in Chats}
    \cup UNION {{<<u, v>> : u \in StoredUsers(c), v \in StoredUsers(d)} :
                  <<c, d>> \in {p \in Chats \X Chats : p[1] # p[2]}}

IdleBatch == [pc |-> "idle", users |-> <<>>, hoy |-> IsoFormat(0), mep |-> NaN, i |-> 0]

NoRun ==
    [n |-> 0, exit |-> "none", loaded |-> <<>>, hoy |-> IsoFormat(0),
     quote |-> None, failed |-> 0, outbox |-> <<>>, boards |-> <<>>, saves |-> 0]

NoText == [kind |-> "other", n |-> NotANumber, d |-> BadDate(0)]

IdleWeb ==
    [pc |-> "idle", chat |-> 0, text |-> NoText, users |-> <<>>,
     before |-> None, exc |-> "none", reply |-> "", boards |-> <<>>,
     status |-> 0, loads |-> 0, saves |-> 0, sent |-> <<>>]

NoEng ==
    [args |-> None, out |-> None, alert |-> None]

\* The state before any driver has run; the engine is not applied.
Init ==
    /\ file \in InitFiles
    /\ today = 0
    /\ secret = 0
    /\ batch = IdleBatch
    /\ run = NoRun
    /\ delivered = [c \in Chats |-> [d \in Days |-> 0]]
    /\ web = IdleWeb
    /\ peer = IdleWeb
    /\ msgs = 0
    /\ eng = NoEng

\* The clock: midnight passes.
Tick ==
    /\ today < MaxDay
    /\ today' = today + 1
    /\ UNCHANGED <<file, secret, batch, run, delivered, web, msgs, eng, peer>>

\* daily_job.main, lines 23-30: load_state, the early return without users,
\* today's date string and the quote.  quote = None: fetch_mep raises and
\* ends the run.
main_start_default_rate(users, now, quote) ==
    IF users = <<>> THEN [exit |-> "no_users", hoy |-> IsoFormat(0), mep |-> NaN]
    ELSE [exit |-> "running", hoy |-> IsoFormat(now),
          mep |-> IF IsNone(quote) THEN R(96) ELSE Val(quote)]

\* main_start_fixed_rate: the loop is given a rate other than the fetched one.
main_start_fixed_rate(users, now, quote) ==
    IF users = <<>> THEN [exit |-> "no_users", hoy |-> IsoFormat(0), mep |-> NaN]
    ELSE IF IsNone(quote) THEN [exit |-> "fetch_error", hoy |-> IsoFormat(now), mep |-> NaN]
    ELSE [exit |-> "running", hoy |-> IsoFormat(now), mep |-> R(96)]

main_start(users, now, quote) ==
    IF users = <<>> THEN [exit |-> "no_users", hoy |-> IsoFormat(0), mep |-> NaN]
    ELSE IF IsNone(quote) THEN [exit |-> "fetch_error", hoy |-> IsoFormat(now), mep |-> NaN]
    ELSE [exit |-> "running", hoy |-> IsoFormat(now), mep |-> Val(quote)]

BatchStart ==
    /\ batch.pc = "idle"
    /\ run.n < MaxRuns
    /\ \E quote \in Quotes :
         LET st == main_start(file, today, quote) IN
         /\ batch' = IF st.exit = "running"
                     THEN [pc |-> "loop", users |-> file, hoy |-> st.hoy,
                           mep |-> st.mep, i |-> 1]
                     ELSE IdleBatch
         /\ run' = [NoRun EXCEPT !.n = run.n + 1, !.exit = st.exit,
                                 !.loaded = file, !.hoy = IsoFormat(today),
                                 !.quote = quote]
    /\ UNCHANGED <<file, today, secret, delivered, web, msgs, eng, peer>>

\* The log entries of one iteration: the chat added to each.
Tagged(c, seq) == [k \in DOMAIN seq |-> [chat |-> c, e |-> seq[k]]]

DailyDelivered(sends) ==
    Cardinality({k \in DOMAIN sends : sends[k].kind = "daily" /\ sends[k].ok})

\* One iteration of the loop of main (lines 32-85); an exception ends the
\* run without save_state.
BatchUser ==
    /\ batch.pc = "loop"
    /\ batch.i <= Len(batch.users)
    /\ \E ok1 \in BOOLEAN, ok2 \in BOOLEAN :
       \E u \in {batch.users[batch.i]} :
       \E r \in {main_loop_body(u, batch.hoy, batch.mep, today, ok1, ok2)} :
         /\ batch' = IF r.exc = "none"
                     THEN [batch EXCEPT !.users[batch.i] = r.user, !.i = @ + 1]
                     ELSE IdleBatch
         /\ run' = [run EXCEPT
                      !.exit = IF r.exc = "none" THEN @ ELSE "error",
                      !.failed = IF r.exc = "none" THEN @ ELSE u.chat_id,
                      !.outbox = @ \o Tagged(u.chat_id, r.sends),
                      !.boards = @ \o Tagged(u.chat_id, r.boards)]
         /\ delivered' = [delivered EXCEPT
                            ![u.chat_id][batch.hoy.day] = @ + DailyDelivered(r.sends)]
    /\ UNCHANGED <<file, today, secret, web, msgs, eng, peer>>

\* main, line 87: save_state after the loop.  BatchSaveIfUnchanged is a
\* save that gives way when the file is no longer the one the run loaded.
BatchSaveIfUnchanged ==
    /\ batch.pc = "loop"
    /\ batch.i > Len(batch.users)
    /\ file' = IF file = run.loaded THEN batch.users ELSE file
    /\ batch' = IdleBatch
    /\ run' = [run EXCEPT !.exit = "ok", !.saves = @ + 1]
    /\ UNCHANGED <<today, secret, delivered, web, msgs, eng, peer>>

BatchSave ==
    /\ batch.pc = "loop"
    /\ batch.i > Len(batch.users)
    /\ file' = batch.users
    /\ batch' = IdleBatch
    /\ run' = [run EXCEPT !.exit = "ok", !.saves = @ + 1]
    /\ UNCHANGED <<today, secret, delivered, web, msgs, eng, peer>>

\* ------------------------------------------------------ webhook actions
\* The texts a chat sends.
Texts ==
    {Text("status", NotANumber, BadDate(0)),
     Text("plain", Numeral(1600, "", 0, 0), BadDate(0)),
     Text("ars", Numeral(160, ".", 0, 3), BadDate(0)),
     Text("tna", Numeral(73, "", 0, 0), BadDate(0)),
     Text("dias", Numeral(5, "", 0, 0), BadDate(0)),
     Text("aporte", Numeral(0, "", 0, 0), BadDate(0)),
     Text("ayuda", NotANumber, BadDate(0)),
     Text("aporte", NotANumber, BadDate(0)),
     Text("inicio", NotANumber, BadDate(1))}

\* A POST /telegram: hdr is the X-Telegram-Bot-Api-Secret-Token header (0:
\* none); kind "message": an update with a message of chat with text;
\* "no_message": an update without message; "no_chat": a message without
\* chat id.
Requests ==
    [hdr : {1}, kind : {"message"}, chat : Chats, text : Texts]
    \cup [hdr : {0, 2}, kind : {"message"}, chat : {1}, text : {NoText}]
    \cup [hdr : {1}, kind : {"no_message", "no_chat"}, chat : {0}, text : {NoText}]

\* server.telegram_webhook, lines 192-195: whether the request is refused.
\* UnauthorizedIfPresent: only a header that is present is compared.
UnauthorizedIfPresent(sec, hdr) == sec # 0 /\ hdr # 0 /\ hdr # sec

Unauthorized(sec, hdr) == sec # 0 /\ hdr # sec

\* telegram_webhook, lines 190-212: the secret check, the update's message
\* and chat, load_state, ensure_user and process_message.  An exception of
\* process_message ends the request (HTTP 500) before save_state.
WebhookReceive ==
    /\ web.pc = "idle"
    /\ msgs < MaxMsgs
    /\ msgs' = msgs + 1
    /\ \E req \in Requests, quote \in Quotes :
         IF Unauthorized(secret, req.hdr)
         THEN web' = [IdleWeb EXCEPT !.status = 401]
         ELSE IF req.kind # "message"
         THEN web' = [IdleWeb EXCEPT !.status = 200]
         ELSE
         \E users \in {ensure_user(file, req.chat, today)} :
         \E k \in {IndexOf(users, req.chat)} :
         \E r \in {process_message(users[k], req.text, today, quote)} :
         web' = [pc |-> IF r.exc = "none" THEN "save" ELSE "idle",
                 chat |-> req.chat, text |-> req.text,
                 users |-> [users EXCEPT ![k] = r.user],
                 before |-> Some(users[k]), exc |-> r.exc, reply |-> r.reply,
                 boards |-> r.boards,
                 status |-> IF r.exc = "none" THEN 0 ELSE 500,
                 loads |-> 1, saves |-> 0, sent |-> <<>>]
    /\ UNCHANGED <<file, today, secret, batch, run, delivered, eng, peer>>

\* telegram_webhook, line 214: save_state.
WebhookSave ==
    /\ web.pc = "save"
    /\ file' = web.users
    /\ web' = [web EXCEPT !.pc = "send", !.saves = @ + 1]
    /\ UNCHANGED <<today, secret, batch, run, delivered, msgs, eng, peer>>

\* telegram_webhook, lines 215-217: the reply is sent; a refused delivery
\* raises (HTTP 500).
\* WebhookSendUndoing: a refused delivery puts the user's record back.
WebhookSendUndoing ==
    /\ web.pc = "send"
    /\ \E ok \in BOOLEAN :
         /\ web' = [web EXCEPT !.pc = "idle", !.sent = <<Sent(web.reply, ok)>>,
                               !.status = IF ok THEN 200 ELSE 500,
                               !.exc = IF ok THEN "none" ELSE "RuntimeError"]
         /\ file' = IF ok THEN file
                    ELSE [file EXCEPT ![IndexOf(file, web.chat)] = Val(web.before)]
    /\ UNCHANGED <<today, secret, batch, run, delivered, msgs, eng, peer>>

WebhookSend ==
    /\ web.pc = "send"
    /\ \E ok \in BOOLEAN :
         web' = [web EXCEPT !.pc = "idle", !.sent = <<Sent(web.reply, ok)>>,
                            !.status = IF ok THEN 200 ELSE 500,
                            !.exc = IF ok THEN "none" ELSE "RuntimeError"]
    /\ UNCHANGED <<file, today, secret, batch, run, delivered, msgs, eng, peer>>

\* The batch job alone, run by the scheduler while the clock advances.
Next ==
    \/ Tick
    \/ BatchStart
    \/ BatchUser
    \/ BatchSave

Spec == Init /\ [][Next]_vars

\* The webhook server and the batch job side by side.
WebInitFiles ==
    {<<>>, <<ReadyUser(1), ReadyUser(2)>>} \cup {<<u>> : u \in StoredUsers(1)}

WebInit ==
    /\ file \in WebInitFiles
    /\ today = 0
    /\ secret \in {0, 1}
    /\ batch = IdleBatch
    /\ run = NoRun
    /\ delivered = [c \in Chats |-> [d \in Days |-> 0]]
    /\ web = IdleWeb
    /\ peer = IdleWeb
    /\ msgs = 0
    /\ eng = NoEng

WebNext ==
    \/ BatchStart
    \/ BatchUser
    \/ BatchSave
    \/ WebhookReceive
    \/ WebhookSave
    \/ WebhookSend

SpecWeb == WebInit /\ [][WebNext]_vars

\* The webhook server alone, one request at a time.  The state file holds
\* what earlier requests left: nothing, or chat 1 with its onboarding
\* answered so far ("160.000", then "0,73", then "5", which gives ReadyUser).
AskTnaUser(c) ==
    advance_onboarding(NewUser(c, 0),
                       Text("plain", Numeral(160, ".", 0, 3), BadDate(0)), 0).user

AskDaysUser(c) ==
    advance_onboarding(AskTnaUser(c),
                       Text("plain", Numeral(0, ",", 73, 2), BadDate(0)), 0).user

ChatInitFiles == {<<>>, <<AskTnaUser(1)>>, <<AskDaysUser(1)>>, <<ReadyUser(1)>>}

ChatInit ==
    /\ file \in ChatInitFiles
    /\ today = 0
    /\ secret \in {0, 1}
    /\ batch = IdleBatch
    /\ run = NoRun
    /\ delivered = [c \in Chats |-> [d \in Days |-> 0]]
    /\ web = IdleWeb
    /\ peer = IdleWeb
    /\ msgs = 0
    /\ eng = NoEng

ChatNext ==
    \/ WebhookReceive
    \/ WebhookSave
    \/ WebhookSend

SpecChat == ChatInit /\ [][ChatNext]_vars

\* One stored user, the batch job and the webhook server side by side.
RaceInit ==
    /\ file = <<ReadyUser(1)>>
    /\ today = 0
    /\ secret = 0
    /\ batch = IdleBatch
    /\ run = NoRun
    /\ delivered = [c \in Chats |-> [d \in Days |-> 0]]
    /\ web = IdleWeb
    /\ peer = IdleWeb
    /\ msgs = 0
    /\ eng = NoEng

SpecRace == RaceInit /\ [][WebNext]_vars

\* A second worker of the webhook server: telegram_webhook (lines 190-217)
\* run for another request while the first is between its load_state and
\* its reply.
PeerReceive ==
    /\ peer.pc = "idle"
    /\ msgs < MaxMsgs
    /\ msgs' = msgs + 1
    /\ \E req \in Requests, quote \in Quotes :
         IF Unauthorized(secret, req.hdr)
         THEN peer' = [IdleWeb EXCEPT !.status = 401]
         ELSE IF req.kind # "message"
         THEN peer' = [IdleWeb EXCEPT !.status = 200]
         ELSE
         \E users \in {ensure_user(file, req.chat, today)} :
         \E k \in {IndexOf(users, req.chat)} :
         \E r \in {process_message(users[k], req.text, today, quote)} :
         peer' = [pc |-> IF r.exc = "none" THEN "save" ELSE "idle",
                  chat |-> req.chat, text |-> req.text,
                  users |-> [users EXCEPT ![k] = r.user],
                  before |-> Some(users[k]), exc |-> r.exc, reply |-> r.reply,
                  boards |-> r.boards,
                  status |-> IF r.exc = "none" THEN 0 ELSE 500,
                  loads |-> 1, saves |-> 0, sent |-> <<>>]
    /\ UNCHANGED <<file, today, secret, batch, run, delivered, web, eng>>

PeerSave ==
    /\ peer.pc = "save"
    /\ file' = peer.users
    /\ peer' = [peer EXCEPT !.pc = "send", !.saves = @ + 1]
    /\ UNCHANGED <<today, secret, batch, run, delivered, web, msgs, eng>>

PeerSend ==
    /\ peer.pc = "send"
    /\ \E ok \in BOOLEAN :
         peer' = [peer EXCEPT !.pc = "idle", !.sent = <<Sent(peer.reply, ok)>>,
                              !.status = IF ok THEN 200 ELSE 500,
                              !.exc = IF ok THEN "none" ELSE "RuntimeError"]
    /\ UNCHANGED <<file, today, secret, batch, run, delivered, web, msgs, eng>>

\* Two workers of the webhook server side by side.
PeersInitFiles == {<<>>, <<ReadyUser(1), ReadyUser(2)>>}

PeersInit ==
    /\ file \in PeersInitFiles
    /\ today = 0
    /\ secret = 0
    /\ batch = IdleBatch
    /\ run = NoRun
    /\ delivered = [c \in Chats |-> [d \in Days |-> 0]]
    /\ web = IdleWeb
    /\ peer = IdleWeb
    /\ msgs = 0
    /\ eng = NoEng

PeersNext ==
    \/ WebhookReceive
    \/ WebhookSave
    \/ WebhookSend
    \/ PeerReceive
    \/ PeerSave
    \/ PeerSend

SpecPeers == PeersInit /\ [][PeersNext]_vars


\* ------------------------------------------------- the engine, applied
\* The arguments compute_board is applied to.
EngineAportes ==
    {Aporte(IsoFormat(1), R(50)), Aporte(IsoFormat(6), R(50)),
     Aporte(BadDate(0), R(50)), AporteBadAmount(IsoFormat(1)),
     AporteBadAmount(IsoFormat(7)), AporteNoPair}

EngineAporteLists ==
    UNION {[1 .. k -> EngineAportes] : k \in 0 .. MaxAportes}

EngineArgs ==
    [usd_inicial : {R(0), R(2)},
     costo_salida : {R(0), <<1, 2>>},
     fecha_inicio : {IsoFormat(1), BadDate(0)},
     horizonte_dias : {0, 5},
     tna_pesos : {R(0), <<73, 100>>},
     ars_hoy : {R(-400), R(0), R(400), NaN},
     mep_hoy : {R(95), R(100), R(101)},
     aportes : EngineAporteLists]

EngineDays == {0, 1, 7}

BoardInit ==
    /\ file = <<>>
    /\ today \in EngineDays
    /\ secret = 0
    /\ batch = IdleBatch
    /\ run = NoRun
    /\ delivered = [c \in Chats |-> [d \in Days |-> 0]]
    /\ web = IdleWeb
    /\ peer = IdleWeb
    /\ msgs = 0
    /\ eng \in [args : {Some(a) : a \in EngineArgs}, out : {None}, alert : {None}]

\* The keyword arguments, with the day today_in_tz returns at the call.
WithHoy(a, now) ==
    [usd_inicial |-> a.usd_inicial, costo_salida |-> a.costo_salida,
     hoy |-> now, fecha_inicio |-> a.fecha_inicio,
     horizonte_dias |-> a.horizonte_dias, tna_pesos |-> a.tna_pesos,
     ars_hoy |-> a.ars_hoy, mep_hoy |-> a.mep_hoy, aportes |-> a.aportes]

\* A caller applies compute_board to its arguments.
\* CallComputeBoardConsuming: a call that empties the list it was given.
CallComputeBoardConsuming ==
    /\ ~IsNone(eng.args)
    /\ IsNone(eng.out)
    /\ eng' = [eng EXCEPT !.out = Some(compute_board(WithHoy(Val(eng.args), today))),
                          !.args = Some([Val(@) EXCEPT !.aportes = <<>>])]
    /\ UNCHANGED <<file, today, secret, batch, run, delivered, web, msgs, peer>>

CallComputeBoard ==
    /\ ~IsNone(eng.args)
    /\ IsNone(eng.out)
    /\ eng' = [eng EXCEPT !.out = Some(compute_board(WithHoy(Val(eng.args), today)))]
    /\ UNCHANGED <<file, today, secret, batch, run, delivered, web, msgs, peer>>

\* The caller applies build_alert_message to the board it got.
CallBuildAlertMessage ==
    /\ ~IsNone(eng.out)
    /\ Val(eng.out).exc = "none"
    /\ IsNone(eng.alert)
    /\ eng' = [eng EXCEPT !.alert = Some(build_alert_message(Val(eng.out).board))]
    /\ UNCHANGED <<file, today, secret, batch, run, delivered, web, msgs, peer>>

BoardNext ==
    \/ CallComputeBoard
    \/ CallBuildAlertMessage

SpecBoard == BoardInit /\ [][BoardNext]_vars

\* ================================================================ claims
\* ---- helpers of the claims
HasNull(u) == IsNone(u.ars_hoy) \/ IsNone(u.tna_pesos) \/ IsNone(u.horizonte_dias)
\* The users a run that loaded users on date string hoy has to serve.
Pending(u, hoy) == u.step = "ready" /\ u.last_sent # Some(hoy)
RunEnded == run.n > 0 /\ batch.pc = "idle"
\* Positions of the run's log where chat c was sent a message of kind k.
SentAt(c, k) == {j \in DOMAIN run.outbox :
                   run.outbox[j].chat = c /\ run.outbox[j].e.kind = k}
DeliveredAt(c, k) == {j \in SentAt(c, k) : run.outbox[j].e.ok}
\* The boards the run computed without an exception, with their chat.
RunBoards == {run.boards[j] : j \in {i \in DOMAIN run.boards : run.boards[i].e.exc = "none"}}

EngDone == ~IsNone(eng.args) /\ ~IsNone(eng.out)
EngArgs == Val(eng.args)
EngOut == Val(eng.out)
WellFormed(e) == e.pair /\ e.f.ok /\ e.m.num
\* seq without its entry i.
Without(seq, i) == [j \in 1 .. Len(seq) - 1 |-> IF j < i THEN seq[j] ELSE seq[j + 1]]

\* ---- C1
\* C1: when a batch run ended because a delivery failed for one user, every
\* other user the run had to serve (ready, last_sent other than today, all
\* fields present) was still sent the daily report in that run.
C1_FailureDoesNotBlockOthers ==
    (RunEnded /\ \E j \in DOMAIN run.outbox : ~run.outbox[j].e.ok)
    => \A k \in DOMAIN run.loaded :
         LET u == run.loaded[k] IN
         (u.chat_id # run.failed /\ Pending(u, run.hoy) /\ ~HasNull(u))
         => SentAt(u.chat_id, "daily") # {}

\* ---- C2
\* C2: over all the batch runs of one calendar date, ended early or not, a
\* user is delivered the daily report of that date at most once.
C2_AtMostOncePerDate ==
    \A c \in Chats : \A d \in Days : delivered[c][d] <= 1

\* ---- C3
\* C3: a batch run whose quote fetch failed has computed no board, sent no
\* message and not saved: it has ended and state.json is as it was loaded.
C3_FetchFailureAborts ==
    (run.n > 0 /\ run.loaded # <<>> /\ IsNone(run.quote))
    => /\ batch.pc = "idle"
       /\ run.exit = "fetch_error"
       /\ run.boards = <<>>
       /\ run.outbox = <<>>
       /\ run.saves = 0
       /\ file = run.loaded

C3_Witness ==
    /\ run.n > 0
    /\ IsNone(run.quote)
    /\ \E k \in DOMAIN run.loaded : Pending(run.loaded[k], run.hoy)

\* ---- C4
\* C4: with the three required fields present, compute_board returns a
\* board and does not raise, also for a zero principal or a zero or negative
\* break-even.  Stated here for the calls whose start date parses, whose
\* quote is positive and whose contributions are all well formed.
C4_NeverRaises ==
    (/\ EngDone
     /\ EngArgs.fecha_inicio.ok
     /\ RLt(R(0), EngArgs.mep_hoy)
     /\ \A i \in DOMAIN EngArgs.aportes : WellFormed(EngArgs.aportes[i]))
    => EngOut.exc = "none"

\* ---- C5
\* C5: compute_board returns for a contribution list what it returns for
\* the list without its malformed entries (a date that does not parse, an
\* amount that is no number).  Stated here for the lists of [date, amount]
\* pairs and the calls that return a board for the list without them.
C5_MalformedSkipped ==
    (EngDone /\ \A i \in DOMAIN EngArgs.aportes : EngArgs.aportes[i].pair)
    => LET clean == compute_board(
                      WithHoy([EngArgs EXCEPT !.aportes = SelectSeq(@, WellFormed)],
                              today))
       IN  clean.exc = "none" => EngOut = clean

\* ---- C6
\* C6: for a user with ars_hoy, tna_pesos or horizonte_dias null no driver
\* calls compute_board and none crashes: a batch run that has passed such a
\* user it had to serve has sent the missing-data message and marked the
\* date, and the webhook answers 'status' with the missing-configuration
\* text.
C6_MissingFieldsReported ==
    /\ \A j \in DOMAIN run.boards :
         \A k \in DOMAIN run.loaded :
           run.loaded[k].chat_id = run.boards[j].chat => ~HasNull(run.loaded[k])
    /\ batch.pc = "loop"
       => \A k \in 1 .. (batch.i - 1) :
            LET u == run.loaded[k] IN
            (Pending(u, batch.hoy) /\ HasNull(u))
            => /\ batch.users[k].last_sent = Some(batch.hoy)
               /\ DeliveredAt(u.chat_id, "missing_ars")
                    \cup DeliveredAt(u.chat_id, "missing_config") # {}
    /\ (web.loads = 1 /\ web.text.kind = "status" /\ HasNull(Val(web.before)))
       => /\ web.boards = <<>>
          /\ web.exc # "ValueError"
          /\ web.reply = "falta_configuracion"

\* ---- C7
\* C7 as claimed: for a positive quote and every be_90 the board's alert
\* level is none iff quote < 0.95 * be_90, amarilla iff 0.95 * be_90 <=
\* quote < be_90, and roja iff quote >= be_90.
C7_AlertBoundaries ==
    (EngDone /\ EngOut.exc = "none" /\ RLt(R(0), EngArgs.mep_hoy))
    => LET b == EngOut.board
           q == EngArgs.mep_hoy
           warn == RMul(<<19, 20>>, b.be_90)
       IN  /\ b.alerta \in {"none", "amarilla", "roja"}
           /\ b.alerta = "none" <=> RLt(q, warn)
           /\ b.alerta = "amarilla" <=> (RLe(warn, q) /\ RLt(q, b.be_90))
           /\ b.alerta = "roja" <=> RLe(b.be_90, q)

\* C7 amended: the same boundaries for every be_90 that is a number; for a
\* be_90 that is NaN (an ars_hoy that is NaN) every comparison is false and
\* the level is roja.
C7_AlertBoundariesOfNumbers ==
    (EngDone /\ EngOut.exc = "none" /\ RLt(R(0), EngArgs.mep_hoy))
    => LET b == EngOut.board
           q == EngArgs.mep_hoy
           warn == RMul(<<19, 20>>, b.be_90)
       IN  /\ b.alerta \in {"none", "amarilla", "roja"}
           /\ IsNaN(b.be_90) => b.alerta = "roja"
           /\ ~IsNaN(b.be_90)
              => /\ b.alerta = "none" <=> RLt(q, warn)
                 /\ b.alerta = "amarilla" <=> (RLe(warn, q) /\ RLt(q, b.be_90))
                 /\ b.alerta = "roja" <=> RLe(b.be_90, q)

\* A quote exactly at 0.95 * be_90, with be_90 positive.
C7_Witness ==
    /\ EngDone
    /\ EngOut.exc = "none"
    /\ RLt(R(0), EngOut.board.be_90)
    /\ EngArgs.mep_hoy = RMul(<<19, 20>>, EngOut.board.be_90)
    /\ EngOut.board.alerta = "amarilla"

\* ---- C8
\* C8: a board with a negative margen_pct has alert level roja.
C8_NegativeMarginIsCritical ==
    (/\ EngDone
     /\ EngOut.exc = "none"
     /\ RLt(EngOut.board.margen_pct, R(0)))
    => EngOut.board.alerta = "roja"

C8_Witness ==
    /\ EngDone
    /\ EngOut.exc = "none"
    /\ RLt(EngOut.board.margen_pct, R(0))
    /\ RLt(EngOut.board.be_90, EngArgs.mep_hoy)

\* ---- C9
\* C9: compute_board returns for a list holding a contribution dated after
\* fecha_inicio + horizonte_dias what it returns for the list without it:
\* the same ars_90, be_90, margen_pct and alerta.
LateAt(i) ==
    /\ EngArgs.fecha_inicio.ok
    /\ EngArgs.aportes[i].pair
    /\ EngArgs.aportes[i].f.ok
    /\ EngArgs.aportes[i].f.day > EngArgs.fecha_inicio.day + EngArgs.horizonte_dias

C9_LateContributionIgnored ==
    EngDone
    => \A i \in DOMAIN EngArgs.aportes :
         LateAt(i)
         => LET o == compute_board(
                       WithHoy([EngArgs EXCEPT !.aportes = Without(@, i)], today))
            IN  /\ o.exc = EngOut.exc
                /\ o.board.ars_90 = EngOut.board.ars_90
                /\ o.board.be_90 = EngOut.board.be_90
                /\ o.board.margen_pct = EngOut.board.margen_pct
                /\ o.board.alerta = EngOut.board.alerta

\* A board computed from a list with a late numeric contribution.
C9_Witness ==
    /\ EngDone
    /\ EngOut.exc = "none"
    /\ \E i \in DOMAIN EngArgs.aportes : LateAt(i) /\ EngArgs.aportes[i].m.num

\* ---- C10
\* C10 as claimed: build_alert_message returns None exactly for level none,
\* and a user whose board a batch run computed is sent an alert in that run
\* exactly when the board's level is amarilla or roja.
C10_AlertExactlyWhenLevel ==
    \A x \in RunBoards :
      /\ IsNone(build_alert_message(x.e.board)) <=> x.e.board.alerta = "none"
      /\ SentAt(x.chat, "alert") # {} <=> x.e.board.alerta \in {"amarilla", "roja"}

\* C10 amended: build_alert_message returns None exactly for level none; a
\* batch run sends a user an alert only for a board of level amarilla or
\* roja and only after it delivered the daily report; and it does send the
\* alert whenever the level is amarilla or roja and the daily report was
\* delivered.
C10_AlertAfterDeliveredReport ==
    \A x \in RunBoards :
      /\ IsNone(build_alert_message(x.e.board)) <=> x.e.board.alerta = "none"
      /\ \A j \in SentAt(x.chat, "alert") :
           /\ x.e.board.alerta \in {"amarilla", "roja"}
           /\ \E i \in DeliveredAt(x.chat, "daily") : i < j
      /\ \A j \in SentAt(x.chat, "daily") :
           ~(\E i \in SentAt(x.chat, "alert") : i < j)
      /\ (x.e.board.alerta \in {"amarilla", "roja"}
          /\ DeliveredAt(x.chat, "daily") # {})
         => SentAt(x.chat, "alert") # {}

\* A run delivered a daily report and then an alert for a board of level
\* amarilla.
C10_Witness ==
    \E x \in RunBoards :
      /\ x.e.board.alerta = "amarilla"
      /\ \E i \in DeliveredAt(x.chat, "daily") :
           \E j \in DeliveredAt(x.chat, "alert") : i < j

\* ---- C11
\* C11: for a horizonte_dias >= 0 and a today before fecha_inicio, inside
\* the horizon or after it, the board's dias_restantes is
\* max(0, horizonte_dias - dias_transcurridos), it is never negative, and it
\* is 0 exactly when today is on or after fecha_90.
C11_RemainingDaysClamped ==
    (EngDone /\ EngOut.exc = "none" /\ EngArgs.horizonte_dias >= 0)
    => LET b == EngOut.board
           elapsed == today - EngArgs.fecha_inicio.day
           left == EngArgs.horizonte_dias - elapsed
       IN  /\ b.dias_restantes = IF left > 0 THEN left ELSE 0
           /\ b.dias_restantes >= 0
           /\ b.dias_restantes = 0 <=> today >= b.fecha_90.day

\* A board computed after the end of a positive horizon: the difference is
\* negative and the clamp gives 0.
C11_Witness ==
    /\ EngDone
    /\ EngOut.exc = "none"
    /\ EngArgs.horizonte_dias > 0
    /\ today > EngOut.board.fecha_90.day
    /\ EngOut.board.dias_restantes = 0

\* ---- helpers of the webhook claims
\* The record of chat c in users (c is a key of users).
RecordOf(users, c) == users[IndexOf(users, c)]
\* The handled request's user record before and after process_message.
WebBefore == Val(web.before)
WebAfter == RecordOf(web.users, web.chat)

\* ---- C12
\* C12: state.json is written whole, by whoever saves: a save_state of the
\* batch run leaves the file equal to the run's in-memory copy and a
\* save_state of the webhook handler leaves it equal to the handler's copy,
\* whatever the file held; what the other saved since this one's load_state
\* is gone.
C12_LastWriteWins ==
    [][/\ (batch.pc = "loop" /\ run'.saves = run.saves + 1) => file' = batch.users
       /\ (web.pc = "save" /\ web'.saves = web.saves + 1) => file' = web.users]_vars

\* The handler changed its user's record and saved it, the batch run that
\* had loaded before saved after: the file holds the record as it was before
\* the handler's change (up to last_sent, which the run sets).
C12_Witness ==
    /\ web.saves = 1
    /\ run.saves = 1
    /\ IndexOf(file, web.chat) # 0
    /\ WebAfter # WebBefore
    /\ [RecordOf(file, web.chat) EXCEPT !.last_sent = None]
         = [WebBefore EXCEPT !.last_sent = None]

\* ---- C13
\* C13: a batch run fetches the quote once, before its loop (BatchStart is
\* the only step that fetches, and it records the result in run.quote): a
\* run that is in its loop, or has computed a board or sent a message, has
\* a fetched quote, the loop holds that value, and every board the run
\* computed has it as mep_hoy.
C13_OneQuotePerRun ==
    /\ (batch.pc = "loop" \/ run.boards # <<>> \/ run.outbox # <<>>)
       => ~IsNone(run.quote)
    /\ batch.pc = "loop" => batch.mep = Val(run.quote)
    /\ \A x \in RunBoards : x.e.board.mep_hoy = Val(run.quote)

\* One run computed the boards of two users.
C13_Witness ==
    \E x \in RunBoards : \E y \in RunBoards :
      /\ x.chat # y.chat
      /\ x.e.board.mep_hoy = y.e.board.mep_hoy

C15_ReadyIsConfigured ==
    /\ \A k \in DOMAIN file : file[k].step = "ready" => ~HasNull(file[k])
    /\ \A k \in DOMAIN web.users : web.users[k].step = "ready" => ~HasNull(web.users[k])
    /\ (web.loads = 1 /\ WebBefore.step = "ready") => ~HasNull(WebAfter)

\* A user became ready by the last onboarding answer, and a user that was
\* ready had a command change a field.
C15_Witness ==
    /\ web.loads = 1
    /\ WebAfter.step = "ready"
    /\ \/ WebBefore.step = "ask_days" /\ web.saves = 1
       \/ WebBefore.step = "ready" /\ web.text.kind \in {"ars", "tna", "dias", "aporte"}
                                   /\ WebAfter # WebBefore

\* ---- C16
\* The place of a step in the onboarding sequence.
Rank(step) ==
    CASE step = "ask_ars" -> 0
      [] step = "ask_tna" -> 1
      [] step = "ask_days" -> 2
      [] step = "ready" -> 3
\* The whole text is a (finite) number.
IsNumber(text) == text.kind = "plain" /\ text.n.ok

C17_BothUpdatesPersist ==
    (web.saves = 1 /\ peer.saves = 1 /\ web.chat # peer.chat)
    => /\ IndexOf(file, web.chat) # 0
       /\ RecordOf(file, web.chat) = WebAfter
       /\ IndexOf(file, peer.chat) # 0
       /\ RecordOf(file, peer.chat) = RecordOf(peer.users, peer.chat)

\* ---- C18
\* C18: whatever the chats had the webhook store, a batch run whose quote
\* fetch and deliveries all succeeded has delivered the daily report to
\* every user it had to serve whose own record is complete and has a start
\* date that parses, and has saved their last_sent in state.json.
C18_StoredTextDoesNotBlockBatch ==
    (/\ RunEnded
     /\ run.loaded # <<>>
     /\ ~IsNone(run.quote)
     /\ \A j \in DOMAIN run.outbox : run.outbox[j].e.ok)
    => \A k \in DOMAIN run.loaded :
         LET u == run.loaded[k] IN
         (Pending(u, run.hoy) /\ ~HasNull(u) /\ u.fecha_inicio.ok)
         => /\ DeliveredAt(u.chat_id, "daily") # {}
            /\ run.saves = 1

\* ---- C19
\* The handled request ended by an exception of process_message.
WebFailed == web.loads = 1 /\ web.exc \notin {"none", "RuntimeError"}

\* C19: a request whose process_message raised (a numeric argument float()
\* rejects, a failed quote fetch in status) has not saved and not replied:
\* state.json is as it was loaded, without the record of a new chat and with
\* the record of a known chat as it was.  A request that got to its reply
\* has saved before, and a refused reply leaves state.json as saved.
C19_FailedMessageNotPersisted ==
    /\ WebFailed
       => /\ web.pc = "idle"
          /\ web.saves = 0
          /\ web.sent = <<>>
          /\ web.status = 500
          /\ WebAfter = WebBefore
          /\ web.users = ensure_user(file, web.chat, today)
          /\ IF IndexOf(file, web.chat) = 0
             THEN WebBefore = NewUser(web.chat, today)
             ELSE RecordOf(file, web.chat) = WebBefore
    /\ (web.pc = "send" \/ web.sent # <<>>)
       => /\ web.saves = 1
          /\ file = web.users
    /\ web.exc = "RuntimeError"
       => /\ web.status = 500
          /\ web.saves = 1
          /\ file = web.users

\* A ready user's aporte with an amount that is no number.
C19_Witness ==
    /\ WebFailed
    /\ WebBefore.step = "ready"
    /\ web.text.kind = "aporte"
    /\ web.exc = "ValueError"

\* ---- C20
\* C20: with a secret configured, a request whose header is missing or
\* different is answered 401 and nothing else happens: no load_state, no
\* user record, no save_state, no message; the message of such a request is
\* never processed.  (A request answered 401 only occurs with a secret
\* configured.)
C20_UnauthorizedHasNoEffect ==
    /\ web.status = 401
       => /\ secret # 0
          /\ web.pc = "idle"
          /\ web.loads = 0
          /\ web.saves = 0
          /\ web.users = <<>>
          /\ IsNone(web.before)
          /\ web.sent = <<>>
    /\ secret # 0
       => \A r \in Requests :
            (r.kind = "message" /\ r.hdr # secret)
            => ~(web.loads = 1 /\ web.chat = r.chat /\ web.text = r.text)

\* With a secret configured and users stored, a request was answered 401.
C20_Witness ==
    /\ secret # 0
    /\ file # <<>>
    /\ msgs > 0
    /\ web.status = 401

====
